---- MODULE Spec2Model ----
(***************************************************************************)
(* A model of the SCons unity build tool, src/unity_build.py.              *)
(*                                                                         *)
(* Python values are tagged records: a str is PyStr(chars) where chars is  *)
(* the sequence of its characters, a SCons File or Dir node carries its    *)
(* abspath, any other node is opaque, and a list carries its items.        *)
(***************************************************************************)
EXTENDS Integers, Sequences, FiniteSets, TLC

VARIABLES
    inv,          \* per invocation of generator(): its arguments, locals and position
    unity_calls,  \* the env.UnitySource(target, source) calls issued so far, in order
    dirs,         \* the directories os.makedirs has created
    fl,           \* a direct call of _flatten_source: its argument and its result
    rd            \* a direct use of _generate_unity_file: its arguments and the file system

vars == <<inv, unity_calls, dirs, fl, rd>>

----------------------------------------------------------------------------
(* Bounds of the model. *)

MaxT == 8            \* longest flat source list
MaxCfg == 5          \* largest UNITY_MAX_SOURCES / UNITY_MIN_FILES drawn
MaxNest == 3         \* size (leaves + inner lists) of the nested source lists
MaxTree == 4         \* size of the nested lists handed to _flatten_source directly
MaxGroup == 2        \* longest group rendered by _generate_unity_file
MaxPath == 2         \* longest source path rendered
MaxRender == 2       \* renderings of one group to one destination
MaxTwoT == 2         \* sources per invocation when two invocations run

----------------------------------------------------------------------------
(* Python values. *)

PyNone == [kind |-> "None"]
PyStr(chars) == [kind |-> "str", val |-> chars]
FileNode(path) == [kind |-> "File", abspath |-> path]
DirNode(path) == [kind |-> "Dir", abspath |-> path]
OtherNode(n) == [kind |-> "Node", id |-> n]
PyList(items) == [kind |-> "list", items |-> items]

Max(a, b) == IF a >= b THEN a ELSE b
Min(a, b) == IF a <= b THEN a ELSE b

(* math.ceil(a / b) for integers a, b with b /= 0. *)
CeilDiv(a, b) == IF b > 0 THEN -((-a) \div b) ELSE -(a \div (-b))

(* s[begin:end] for 0 <= begin <= end. *)
Slice(s, begin, end) == SubSeq(s, begin + 1, Min(end, Len(s)))

Digits == <<"0", "1", "2", "3", "4", "5", "6", "7", "8", "9">>

(* The decimal text an f-string gives a non-negative int. *)
RECURSIVE IntChars(_)
IntChars(n) ==
    IF n < 10 THEN <<Digits[n + 1]>>
    ELSE IntChars(n \div 10) \o <<Digits[(n % 10) + 1]>>

(* os.path.basename: what follows the last "/". *)
RECURSIVE basename(_)
basename(p) ==
    IF p = <<>> THEN <<>>
    ELSE IF p[Len(p)] = "/" THEN <<>>
    ELSE Append(basename(SubSeq(p, 1, Len(p) - 1)), p[Len(p)])

----------------------------------------------------------------------------
(* _flatten_source, lines 105-120. The for loop appends what each element  *)
(* contributes, in order: a list contributes what the recursive call       *)
(* returns for it, a File its abspath, a str itself, anything else itself  *)
(* as another node. A source of two or more elements is cut in two halves  *)
(* whose contributions are appended in order, which is the loop's result.  *)

RECURSIVE _flatten_source(_)

(* Fault: line 112 left out, the other nodes of a nested list are dropped. *)
_flatten_source_drops_nested_nodes(source) ==
    IF Len(source) = 0
    THEN [source_files |-> <<>>, other_nodes |-> <<>>]
    ELSE IF Len(source) = 1
    THEN LET ele == source[1]
         IN  IF ele.kind = "list"
             THEN [source_files |-> _flatten_source(ele.items).source_files,
                   other_nodes |-> <<>>]
             ELSE IF ele.kind = "File"
             THEN [source_files |-> <<PyStr(ele.abspath)>>, other_nodes |-> <<>>]
             ELSE IF ele.kind = "str"
             THEN [source_files |-> <<ele>>, other_nodes |-> <<>>]
             ELSE [source_files |-> <<>>, other_nodes |-> <<ele>>]
    ELSE LET h == Len(source) \div 2
             first == _flatten_source(SubSeq(source, 1, h))
             more == _flatten_source(SubSeq(source, h + 1, Len(source)))
         IN  [source_files |-> first.source_files \o more.source_files,
              other_nodes |-> first.other_nodes \o more.other_nodes]

_flatten_source(source) ==
    IF Len(source) = 0
    THEN [source_files |-> <<>>, other_nodes |-> <<>>]
    ELSE IF Len(source) = 1
    THEN LET ele == source[1]
         IN  IF ele.kind = "list"
             THEN _flatten_source(ele.items)
             ELSE IF ele.kind = "File"
             THEN [source_files |-> <<PyStr(ele.abspath)>>, other_nodes |-> <<>>]
             ELSE IF ele.kind = "str"
             THEN [source_files |-> <<ele>>, other_nodes |-> <<>>]
             ELSE [source_files |-> <<>>, other_nodes |-> <<ele>>]
    ELSE LET h == Len(source) \div 2
             first == _flatten_source(SubSeq(source, 1, h))
             more == _flatten_source(SubSeq(source, h + 1, Len(source)))
         IN  [source_files |-> first.source_files \o more.source_files,
              other_nodes |-> first.other_nodes \o more.other_nodes]

----------------------------------------------------------------------------
(* generator(): lines 77-80, the group size and the number of unity files. *)

max_sources_per_file(T, K) == Max(1, CeilDiv(T, K))

(* Fault: line 78 left out, UNITY_MAX_SOURCES does not cap the group size. *)
sources_per_file_uncapped(T, M, K) == max_sources_per_file(T, K)

sources_per_file(T, M, K) == Min(max_sources_per_file(T, K), M)

num_unity_files(T, M, K) == CeilDiv(T, sources_per_file(T, M, K))

(* f'{cache_dir}/{target_base_name}_{idx}.cpp' *)
unity_filename(cache_dir, target_base_name, idx) ==
    PyStr(cache_dir \o <<"/">> \o target_base_name \o <<"_">> \o IntChars(idx)
          \o <<".", "c", "p", "p">>)

(* Fault: the end of the slice taken as its last index. *)
group_end_inclusive(source_files, spf, idx) ==
    Slice(source_files, spf * idx, spf * (idx + 1) - 1)

(* The source handed to env.UnitySource in iteration idx. *)
group(source_files, spf, idx) == Slice(source_files, spf * idx, spf * (idx + 1))

----------------------------------------------------------------------------
(* generate(): the defaults of the Environment options, lines 65-68. *)

DefaultMaxSources == 15

DefaultCacheDir == PyStr(<<".", "u", "n", "i", "t", "y">>)

MakeEnv(disable, min_files, max_sources, env_cache_dir) ==
    [UNITY_DISABLE |-> disable, UNITY_MIN_FILES |-> min_files,
     UNITY_MAX_SOURCES |-> max_sources, UNITY_CACHE_DIR |-> env_cache_dir]

----------------------------------------------------------------------------
(* generator(env, source, target, cache_dir), lines 71-102, one invocation *)
(* per element of Invs.                                                    *)

Invs == {1, 2}

NewInvocation(env, source, target, cache_dir, kwargs) ==
    [pc |-> "start", env |-> env, source |-> source, target |-> target,
     cache_dir |-> cache_dir, kwargs |-> kwargs, unity_source_files |-> <<>>, source_files |-> <<>>,
     other_nodes |-> <<>>, sources_per_file |-> 0, num_unity_files |-> 0,
     idx |-> 0, target_base_name |-> <<>>, base_calls |-> <<>>,
     printed |-> FALSE, err |-> "none"]

(* The *args and **kwargs of a call: none, or some the base generator takes. *)
NoKwargs == <<>>

NotInvoked ==
    [NewInvocation(MakeEnv(FALSE, 1, DefaultMaxSources, DefaultCacheDir),
                   <<>>, <<>>, PyNone, NoKwargs) EXCEPT !.pc = "idle"]

(* A call of the base generator (env.Program, env.Library, ...). *)
BaseCall(target, source, kwargs) ==
    [target |-> target, source |-> source, kwargs |-> kwargs]

(* Fault: the disabled generator passes the flattened source files on. *)
GenDisabledFlattening(i) ==
    /\ inv[i].pc = "start"
    /\ inv[i].env.UNITY_DISABLE
    /\ inv' = [inv EXCEPT ![i].base_calls =
                              Append(@, BaseCall(inv[i].target,
                                                 _flatten_source(inv[i].source).source_files,
                                                 inv[i].kwargs)),
                          ![i].pc = "done"]
    /\ UNCHANGED <<unity_calls, dirs, fl, rd>>

(* Lines 72-73: UNITY_DISABLE passes the call through. *)
GenDisabled(i) ==
    /\ inv[i].pc = "start"
    /\ inv[i].env.UNITY_DISABLE
    /\ inv' = [inv EXCEPT ![i].base_calls =
                              Append(@, BaseCall(inv[i].target, inv[i].source, inv[i].kwargs)),
                          ![i].pc = "done"]
    /\ UNCHANGED <<unity_calls, dirs, fl, rd>>

(* Lines 74-80: flatten the sources, size the groups. A division by zero *)
(* raises ZeroDivisionError out of the generator.                         *)
GenPartition(i) ==
    /\ inv[i].pc = "start"
    /\ ~inv[i].env.UNITY_DISABLE
    /\ LET f == _flatten_source(inv[i].source)
           T == Len(f.source_files)
           K == inv[i].env.UNITY_MIN_FILES
           M == inv[i].env.UNITY_MAX_SOURCES
           flat == [inv[i] EXCEPT !.source_files = f.source_files,
                                  !.other_nodes = f.other_nodes]
       IN  inv' = [inv EXCEPT ![i] =
                IF K = 0
                THEN [flat EXCEPT !.pc = "error", !.err = "ZeroDivisionError"]
                ELSE IF sources_per_file(T, M, K) = 0
                THEN [flat EXCEPT !.sources_per_file = 0,
                                  !.pc = "error", !.err = "ZeroDivisionError"]
                ELSE [flat EXCEPT !.sources_per_file = sources_per_file(T, M, K),
                                  !.num_unity_files = num_unity_files(T, M, K),
                                  !.pc = "cache"]]
    /\ UNCHANGED <<unity_calls, dirs, fl, rd>>

(* `not cache_dir` *)
Falsy(v) == v.kind = "None" \/ (v.kind = "str" /\ v.val = <<>>)

(* Lines 82-85: the cache directory as a str. *)
resolve_cache_dir(cache_dir, env) ==
    LET c == IF Falsy(cache_dir) THEN env.UNITY_CACHE_DIR ELSE cache_dir
    IN  IF c.kind /= "str" THEN PyStr(c.abspath) ELSE c

(* Lines 82-88: os.makedirs may raise OSError. *)
GenCacheDir(i) ==
    /\ inv[i].pc = "cache"
    /\ LET c == resolve_cache_dir(inv[i].cache_dir, inv[i].env)
       IN  \E ok \in BOOLEAN :
              IF ok
              THEN /\ dirs' = dirs \cup {c.val}
                   /\ inv' = [inv EXCEPT ![i].cache_dir = c,
                                         ![i].target_base_name = basename(inv[i].target),
                                         ![i].pc = "loop"]
              ELSE /\ dirs' = dirs
                   /\ inv' = [inv EXCEPT ![i].cache_dir = c,
                                         ![i].pc = "error", ![i].err = "OSError"]
    /\ UNCHANGED <<unity_calls, fl, rd>>

(* A call env.UnitySource(target, source) made by invocation i. *)
UnityCall(i, target, source) == [inv |-> i, target |-> target, source |-> source]

(* Lines 90-98: one iteration of the loop; env.UnitySource may raise. *)
GenUnitySource(i) ==
    /\ inv[i].pc = "loop"
    /\ inv[i].idx < inv[i].num_unity_files
    /\ LET name == unity_filename(inv[i].cache_dir.val, inv[i].target_base_name,
                                  inv[i].idx)
           src == group(inv[i].source_files, inv[i].sources_per_file, inv[i].idx)
       IN  \E ok \in BOOLEAN :
              IF ok
              THEN /\ unity_calls' = Append(unity_calls, UnityCall(i, name, src))
                   /\ inv' = [inv EXCEPT ![i].unity_source_files = Append(@, name),
                                         ![i].idx = @ + 1]
              ELSE /\ unity_calls' = unity_calls
                   /\ inv' = [inv EXCEPT ![i].unity_source_files = Append(@, name),
                                         ![i].pc = "error", ![i].err = "BuildError"]
    /\ UNCHANGED <<dirs, fl, rd>>

(* Fault: the other nodes put before the unity files. *)
base_source_nodes_first(unity_source_files, other_nodes) ==
    other_nodes \o unity_source_files

(* The source list of line 102. *)
base_source(unity_source_files, other_nodes) == unity_source_files \o other_nodes

(* Fault: the return of line 102 indented into the loop, so that the base *)
(* generator is called once the first unity file was issued.              *)
GenCallBaseInsideLoop(i) ==
    /\ inv[i].pc = "loop"
    /\ inv[i].idx >= Min(1, inv[i].num_unity_files)
    /\ inv' = [inv EXCEPT
                 ![i].printed = Len(inv[i].other_nodes) > 0,
                 ![i].base_calls =
                     Append(@, BaseCall(inv[i].target,
                                        inv[i].unity_source_files \o inv[i].other_nodes,
                                        inv[i].kwargs)),
                 ![i].pc = "done"]
    /\ UNCHANGED <<unity_calls, dirs, fl, rd>>

(* Lines 100-102: after the loop, call the base generator. *)
GenCallBase(i) ==
    /\ inv[i].pc = "loop"
    /\ inv[i].idx >= inv[i].num_unity_files
    /\ inv' = [inv EXCEPT
                 ![i].printed = Len(inv[i].other_nodes) > 0,
                 ![i].base_calls =
                     Append(@, BaseCall(inv[i].target,
                                        base_source(inv[i].unity_source_files,
                                                    inv[i].other_nodes),
                                        inv[i].kwargs)),
                 ![i].pc = "done"]
    /\ UNCHANGED <<unity_calls, dirs, fl, rd>>

Next ==
    \E i \in Invs :
        \/ GenDisabled(i)
        \/ GenPartition(i)
        \/ GenCacheDir(i)
        \/ GenUnitySource(i)
        \/ GenCallBase(i)

----------------------------------------------------------------------------
(* The inputs drawn. *)

(* T distinct source paths "s1" .. "sT", as a flat list of str. *)
FlatSources(T) == [j \in 1..T |-> PyStr(<<"s">> \o IntChars(j))]

Leaves ==
    {PyStr(<<"a">>), FileNode(<<"/", "b">>), OtherNode(1), OtherNode(2)}

(* The nested lists of a given size: the leaves and inner lists they hold, *)
(* at any depth.                                                           *)
RECURSIVE ListsOfSize(_)
ListsOfSize(n) ==
    IF n = 0 THEN {<<>>}
    ELSE UNION {
           {<<e>> \o rest :
                e \in (IF k = 1 THEN Leaves ELSE {})
                      \cup {PyList(l) : l \in ListsOfSize(k - 1)},
                rest \in ListsOfSize(n - k)} : k \in 1..n}

ListsUpTo(n) == UNION {ListsOfSize(k) : k \in 0..n}

(* [[a, b], c, [d, [e]]] with File and str leaves. *)
NestedExample ==
    <<PyList(<<PyStr(<<"a">>), FileNode(<<"/", "b">>)>>),
      PyStr(<<"c">>),
      PyList(<<FileNode(<<"/", "d">>), PyList(<<PyStr(<<"e">>)>>)>>)>>

(* The same with passthrough nodes between the sources. *)
MixedExample ==
    <<PyList(<<OtherNode(1), PyStr(<<"a">>)>>),
      PyList(<<PyList(<<FileNode(<<"/", "b">>), OtherNode(2)>>), PyStr(<<"c">>)>>),
      OtherNode(3)>>

Targets == {<<"t">>, <<"a", "/", "t">>, <<"b", "/", "t">>, <<"u">>}

CacheDirArgs ==
    {PyNone, PyStr(<<>>), PyStr(<<"c">>), DirNode(<<"/", "d">>)}

KwargsDrawn == {NoKwargs, <<"LIBS", "m">>}

EnvCacheDirs == {DefaultCacheDir, DirNode(<<"/", "e">>)}

Idle == [source |-> <<>>, result |-> [source_files |-> <<>>, other_nodes |-> <<>>],
         done |-> FALSE]

NoRender == [target |-> <<>>, source |-> <<>>, fs |-> <<>>, writes |-> <<>>]

One(rec) == [i \in Invs |-> IF i = 1 THEN rec ELSE NotInvoked]

(* Flat source lists under every configuration, zero and negative included. *)
InitFlat ==
    \E T \in 0..MaxT, M \in (-1)..MaxCfg, K \in (-1)..MaxCfg :
        inv = One(NewInvocation(MakeEnv(FALSE, K, M, DefaultCacheDir),
                                FlatSources(T), <<"t">>, PyNone, NoKwargs))

(* The worked examples: T=10, M=15, K=4 and T=100, M=15, K=2. *)
InitExamples ==
    \E ex \in {<<10, 4>>, <<100, 2>>} :
        inv = One(NewInvocation(MakeEnv(FALSE, ex[2], DefaultMaxSources, DefaultCacheDir),
                                FlatSources(ex[1]), <<"t">>, PyNone, NoKwargs))

(* Nested source lists, unity builds enabled and disabled. *)
InitNested ==
    \E source \in ListsUpTo(MaxNest) \cup {NestedExample, MixedExample},
       M \in 1..2, K \in 1..2, disable \in BOOLEAN :
        inv = One(NewInvocation(MakeEnv(disable, K, M, DefaultCacheDir),
                                source, <<"t">>, PyNone, NoKwargs))

(* The targets and cache directories. *)
InitArgs ==
    \E target \in Targets, cache_dir \in CacheDirArgs, e \in EnvCacheDirs,
       disable \in BOOLEAN, kwargs \in KwargsDrawn :
        inv = One(NewInvocation(MakeEnv(disable, 2, 2, e), MixedExample, target,
                                cache_dir, kwargs))

Init ==
    /\ InitFlat \/ InitExamples \/ InitNested \/ InitArgs
    /\ unity_calls = <<>>
    /\ dirs = {}
    /\ fl = Idle
    /\ rd = NoRender

Spec == Init /\ [][Next]_vars

(* Two invocations sharing the Environment's cache directory. *)
InitTwo ==
    /\ \E t1 \in Targets, t2 \in Targets, T1 \in 0..MaxTwoT, T2 \in 0..MaxTwoT,
          M \in 0..1, disable \in BOOLEAN :
          inv = [i \in Invs |->
                   NewInvocation(MakeEnv(disable /\ i = 2, 1, M, DefaultCacheDir),
                                 FlatSources(IF i = 1 THEN T1 ELSE T2),
                                 IF i = 1 THEN t1 ELSE t2, PyNone, NoKwargs)]
    /\ unity_calls = <<>>
    /\ dirs = {}
    /\ fl = Idle
    /\ rd = NoRender

SpecTwo == InitTwo /\ [][Next]_vars

----------------------------------------------------------------------------
(* _flatten_source called on its own. *)

InitFlatten ==
    /\ \E source \in ListsUpTo(MaxTree) \cup {NestedExample, MixedExample} :
          fl = [Idle EXCEPT !.source = source]
    /\ inv = [i \in Invs |-> NotInvoked]
    /\ unity_calls = <<>>
    /\ dirs = {}
    /\ rd = NoRender

FlattenCall ==
    /\ ~fl.done
    /\ fl' = [fl EXCEPT !.result = _flatten_source(fl.source), !.done = TRUE]
    /\ UNCHANGED <<inv, unity_calls, dirs, rd>>

NextFlatten == FlattenCall

SpecFlatten == InitFlatten /\ [][NextFlatten]_vars

----------------------------------------------------------------------------
(* _generate_unity_file, lines 126-133: the action of the UnitySource builder. *)

(* Fault: the path written as it is. *)
escape_nothing(path) == path

(* str.replace("\\", "\\\\") *)
RECURSIVE escape(_)
escape(path) ==
    IF path = <<>> THEN <<>>
    ELSE (IF Head(path) = "\\" THEN <<"\\", "\\">> ELSE <<Head(path)>>)
         \o escape(Tail(path))

(* f'#include "{fpath}"\n' *)
include_line(fpath) ==
    <<"#", "i", "n", "c", "l", "u", "d", "e", " ", "\"">> \o fpath \o <<"\"", "\n">>

(* What the loop of lines 131-133 writes to the file opened at line 130. *)
RECURSIVE unity_file_text(_)
unity_file_text(source) ==
    IF source = <<>> THEN <<>>
    ELSE include_line(escape(Head(source).abspath)) \o unity_file_text(Tail(source))

(* A file of the file system: absent, or present with its characters. *)
NoFile == [exists |-> FALSE, data |-> <<>>]
FileWith(data) == [exists |-> TRUE, data |-> data]

(* open(unity_filename, 'w') truncates or creates the file; the loop fills it. *)
_generate_unity_file(target, source, fs) ==
    [fs EXCEPT ![target[1].abspath] = FileWith(unity_file_text(source))]

PathChars == {"x", "\\"}

(* The non-empty paths of at most n characters. *)
PathsUpTo(n) == UNION {[1..k -> PathChars] : k \in 1..n}

GroupsUpTo(n) ==
    UNION {[1..k -> {FileNode(q) : q \in PathsUpTo(MaxPath)}] : k \in 0..n}

Dests == {<<"t", "_", "0">>, <<"u", "_", "0">>}

StaleFiles == {NoFile, FileWith(<<"o", "l", "d", "\n">>)}

InitRender ==
    /\ \E dest \in Dests, source \in GroupsUpTo(MaxGroup), fs \in [Dests -> StaleFiles] :
          rd = [target |-> <<FileNode(dest)>>, source |-> source, fs |-> fs,
                writes |-> <<>>]
    /\ inv = [i \in Invs |-> NotInvoked]
    /\ unity_calls = <<>>
    /\ dirs = {}
    /\ fl = Idle

(* SCons runs the builder's action; writes logs what each run left in the file. *)
RenderCall ==
    /\ Len(rd.writes) < MaxRender
    /\ Len(rd.target) = 1
    /\ LET fs == _generate_unity_file(rd.target, rd.source, rd.fs)
       IN  rd' = [rd EXCEPT !.fs = fs,
                            !.writes = Append(@, fs[rd.target[1].abspath].data)]
    /\ UNCHANGED <<inv, unity_calls, dirs, fl>>

NextRender == RenderCall

SpecRender == InitRender /\ [][NextRender]_vars

----------------------------------------------------------------------------
(* What the properties below speak of. *)

(* The env.UnitySource calls of invocation i, in the order issued. *)
CallsOf(i) == SelectSeq(unity_calls, LAMBDA c : c.inv = i)

(* The slices invocation i handed to UnitySource, in index order. *)
SlicesOf(i) == [k \in 1..Len(CallsOf(i)) |-> CallsOf(i)[k].source]

RECURSIVE Concat(_)
Concat(seqs) == IF seqs = <<>> THEN <<>> ELSE Head(seqs) \o Concat(Tail(seqs))

RECURSIVE SumLen(_)
SumLen(seqs) == IF seqs = <<>> THEN 0 ELSE Len(Head(seqs)) + SumLen(Tail(seqs))

(* ceil(T / K) for T >= 0, K >= 1: the least c with c * K >= T. *)
Ceil(T, K) == CHOOSE c \in 0..T : c * K >= T /\ (c = 0 \/ (c - 1) * K < T)

(* Invocation i ran the enabled generator to its end. *)
EnabledDone(i) == inv[i].pc = "done" /\ ~inv[i].env.UNITY_DISABLE

(* M >= 1 and K >= 1. *)
ValidConfig(i) ==
    inv[i].env.UNITY_MAX_SOURCES >= 1 /\ inv[i].env.UNITY_MIN_FILES >= 1

(* C1: for T >= 0, M >= 1, K >= 1 the slices handed to UnitySource partition *)
(* the flattened sources: their sizes sum to T, none is empty, and their     *)
(* concatenation in index order is the flattened source sequence itself.     *)
C1_SlicesPartition ==
    \A i \in Invs :
        (EnabledDone(i) /\ ValidConfig(i)) =>
            /\ SumLen(SlicesOf(i)) = Len(inv[i].source_files)
            /\ \A k \in 1..Len(SlicesOf(i)) : SlicesOf(i)[k] /= <<>>
            /\ Concat(SlicesOf(i)) = inv[i].source_files

(* A run that cut 8 sources into groups of 3, 3 and 2. *)
C1_Witness ==
    /\ EnabledDone(1) /\ ValidConfig(1)
    /\ Len(inv[1].source_files) = 8
    /\ Len(SlicesOf(1)) = 3
    /\ Len(SlicesOf(1)[3]) = 2

(* C2: for T >= 0, M >= 1, K >= 1 every group has at most min(M, ceil(T/K)) *)
(* sources, every group but the last has exactly the effective size         *)
(* min(M, max(1, ceil(T/K))), and there are ceil(T / effective size) groups; *)
(* T=10, M=15, K=4 gives sizes 3,3,3,1 and T=100, M=15, K=2 gives six groups *)
(* of 15 and one of 10.                                                      *)
C2_GroupSizes ==
    \A i \in Invs :
        (EnabledDone(i) /\ ValidConfig(i)) =>
            LET T == Len(inv[i].source_files)
                M == inv[i].env.UNITY_MAX_SOURCES
                K == inv[i].env.UNITY_MIN_FILES
                eff == Min(M, Max(1, Ceil(T, K)))
                n == Len(SlicesOf(i))
                sizes == [k \in 1..n |-> Len(SlicesOf(i)[k])]
            IN  /\ \A k \in 1..n : sizes[k] <= Min(M, Ceil(T, K))
                /\ \A k \in 1..n : k < n => sizes[k] = eff
                /\ n > 0 => sizes[n] <= eff
                /\ n = Ceil(T, eff)
                /\ (T = 10 /\ M = 15 /\ K = 4) => sizes = <<3, 3, 3, 1>>
                /\ (T = 100 /\ M = 15 /\ K = 2) =>
                       sizes = <<15, 15, 15, 15, 15, 15, 10>>

(* The run of the second example: 100 sources in seven groups. *)
C2_Witness ==
    /\ EnabledDone(1)
    /\ Len(inv[1].source_files) = 100
    /\ inv[1].env.UNITY_MAX_SOURCES = 15 /\ inv[1].env.UNITY_MIN_FILES = 2
    /\ Len(SlicesOf(1)) = 7

(* C3: for M >= 1, K >= 1 and T >= K sources the enabled generator makes at *)
(* least K unity files.                                                     *)
C3_AtLeastMinFiles ==
    \A i \in Invs :
        (EnabledDone(i) /\ ValidConfig(i)
            /\ Len(inv[i].source_files) >= inv[i].env.UNITY_MIN_FILES) =>
            /\ inv[i].num_unity_files >= inv[i].env.UNITY_MIN_FILES
            /\ Len(CallsOf(i)) >= inv[i].env.UNITY_MIN_FILES

----------------------------------------------------------------------------
(* The leaves of a nested list by position. A position is the sequence of   *)
(* indices leading to the leaf; positions compare as a depth-first, left to *)
(* right walk meets them.                                                   *)

RECURSIVE LeafPaths(_)
LeafPaths(list) ==
    UNION {IF list[j].kind = "list"
           THEN {<<j>> \o q : q \in LeafPaths(list[j].items)}
           ELSE {<<j>>} : j \in 1..Len(list)}

RECURSIVE LeafAt(_, _)
LeafAt(list, p) ==
    IF Len(p) = 1 THEN list[p[1]] ELSE LeafAt(list[p[1]].items, Tail(p))

Before(p, q) ==
    \E k \in 1..Min(Len(p), Len(q)) :
        p[k] < q[k] /\ \A j \in 1..(k - 1) : p[j] = q[j]

Rank(p, S) == Cardinality({q \in S : q = p \/ Before(q, p)})

IsCompilable(leaf) == leaf.kind \in {"File", "str"}

(* The leaves of list at the positions S, in order, each seen through f. *)
InOrder(S, list, f(_)) ==
    [r \in 1..Cardinality(S) |-> f(LeafAt(list, CHOOSE p \in S : Rank(p, S) = r))]

AsPath(leaf) == IF leaf.kind = "File" THEN PyStr(leaf.abspath) ELSE leaf

AsIs(leaf) == leaf

CompilableLeaves(list) ==
    InOrder({p \in LeafPaths(list) : IsCompilable(LeafAt(list, p))}, list, AsPath)

PassthroughLeaves(list) ==
    InOrder({p \in LeafPaths(list) : ~IsCompilable(LeafAt(list, p))}, list, AsIs)

Range(seq) == {seq[j] : j \in 1..Len(seq)}

(* C4: with UNITY_DISABLE set the generator flattens nothing, creates no    *)
(* directory, calls UnitySource never, and calls the base generator once    *)
(* with the target, the source list as given and the forwarded arguments.   *)
C4_DisabledPassesThrough ==
    \A i \in Invs :
        inv[i].env.UNITY_DISABLE =>
            /\ inv[i].pc \in {"start", "done"}
            /\ CallsOf(i) = <<>>
            /\ dirs = {}
            /\ inv[i].unity_source_files = <<>>
            /\ inv[i].source_files = <<>> /\ inv[i].other_nodes = <<>>
            /\ inv[i].pc = "start" => inv[i].base_calls = <<>>
            /\ inv[i].pc = "done" =>
                  /\ Len(inv[i].base_calls) = 1
                  /\ inv[i].base_calls[1].source = inv[i].source
                  /\ inv[i].base_calls[1].target = inv[i].target
                  /\ inv[i].base_calls[1].kwargs = inv[i].kwargs

(* A disabled call with a nested source list and forwarded arguments. *)
C4_Witness ==
    /\ inv[1].env.UNITY_DISABLE /\ inv[1].pc = "done"
    /\ inv[1].source = MixedExample
    /\ inv[1].kwargs /= NoKwargs
    /\ inv[1].base_calls /= <<>>

(* C5: in enabled mode the base generator gets the unity files, in the order *)
(* of their UnitySource calls (index 0 first), then the passthrough nodes in *)
(* their original order; no flattened source path is among them, and with no *)
(* compilable source it gets the passthrough nodes alone.                    *)
C5_BaseSourceList ==
    \A i \in Invs :
        EnabledDone(i) =>
            LET calls == CallsOf(i)
                n == Len(calls)
                given == inv[i].base_calls[1].source
                others == PassthroughLeaves(inv[i].source)
            IN  /\ Len(given) = n + Len(others)
                /\ \A k \in 1..n : given[k] = calls[k].target
                /\ \A k \in 1..n : \A j \in 1..n : k /= j => given[k] /= given[j]
                /\ \A k \in 1..Len(others) : given[n + k] = others[k]
                /\ \A k \in 1..Len(given) : given[k] \notin Range(inv[i].source_files)
                /\ inv[i].base_calls[1].target = inv[i].target
                /\ inv[i].base_calls[1].kwargs = inv[i].kwargs
                /\ inv[i].source_files = <<>> => given = others

(* An enabled run with two unity files and three passthrough nodes. *)
C5_Witness ==
    /\ EnabledDone(1)
    /\ inv[1].source = MixedExample
    /\ Len(CallsOf(1)) = 2
    /\ Len(inv[1].base_calls[1].source) = 5

(* C8: the base generator is called exactly once by an invocation that ends *)
(* without error and never before that; in enabled mode it is called only   *)
(* after every one of the num_unity_files UnitySource calls was issued, and *)
(* an invocation that raised has not called it.                             *)
C8_BaseCalledOnceAtEnd ==
    \A i \in Invs :
        /\ inv[i].pc = "done" => Len(inv[i].base_calls) = 1
        /\ inv[i].pc /= "done" => inv[i].base_calls = <<>>
        /\ (inv[i].base_calls /= <<>> /\ ~inv[i].env.UNITY_DISABLE) =>
               /\ Len(CallsOf(i)) = Max(0, inv[i].num_unity_files)
               /\ inv[i].idx = Len(CallsOf(i))

(* UnitySource raised after two unity files were issued. *)
C8_Witness ==
    /\ inv[1].pc = "error" /\ inv[1].err = "BuildError"
    /\ Len(CallsOf(1)) = 2
    /\ inv[1].num_unity_files > 2
    /\ inv[1].base_calls = <<>>

(* C10: whatever the integers UNITY_MAX_SOURCES and UNITY_MIN_FILES are, the *)
(* enabled generator's sources_per_file is at least 1: it raises no          *)
(* ZeroDivisionError and its groups hold every flattened source.             *)
C10_GroupSizeAtLeastOne ==
    \A i \in Invs :
        (~inv[i].env.UNITY_DISABLE /\ inv[i].pc \notin {"idle", "start"}) =>
            /\ inv[i].err /= "ZeroDivisionError"
            /\ inv[i].sources_per_file >= 1
            /\ inv[i].pc = "done" => Concat(SlicesOf(i)) = inv[i].source_files

----------------------------------------------------------------------------
(* C6: _flatten_source puts every leaf of a nested list, met depth-first and *)
(* left to right, in exactly one of its two results: the File and str leaves *)
(* (a File as its abspath) in source_files, every other leaf in other_nodes, *)
(* each in the original order, none lost and none twice; [[a,b],c,[d,[e]]]   *)
(* gives the sources a, b, c, d, e and no other node.                        *)
C6_FlattenKeepsLeaves ==
    fl.done =>
        /\ fl.result.source_files = CompilableLeaves(fl.source)
        /\ fl.result.other_nodes = PassthroughLeaves(fl.source)
        /\ Len(fl.result.source_files) + Len(fl.result.other_nodes)
               = Cardinality(LeafPaths(fl.source))
        /\ fl.source = NestedExample =>
               /\ fl.result.source_files =
                      <<PyStr(<<"a">>), PyStr(<<"/", "b">>), PyStr(<<"c">>),
                        PyStr(<<"/", "d">>), PyStr(<<"e">>)>>
               /\ fl.result.other_nodes = <<>>

(* A list with sources and other nodes at three depths, flattened. *)
C6_Witness ==
    /\ fl.done
    /\ fl.source = MixedExample
    /\ Len(fl.result.source_files) = 3
    /\ Len(fl.result.other_nodes) = 3

(* C7: two invocations for different targets sharing a cache directory hand *)
(* UnitySource disjoint sets of unity file paths.                           *)
C7_DifferentTargetsDisjoint ==
    inv[1].target /= inv[2].target =>
        \A j \in 1..Len(unity_calls) : \A k \in 1..Len(unity_calls) :
            unity_calls[j].inv /= unity_calls[k].inv =>
                unity_calls[j].target /= unity_calls[k].target

----------------------------------------------------------------------------
(* Reading a unity file back. *)

(* The lines of a text, each without its "\n"; text after the last "\n" is *)
(* a line of its own.                                                      *)
RECURSIVE SplitLines(_, _)
SplitLines(text, line) ==
    IF text = <<>> THEN (IF line = <<>> THEN <<>> ELSE <<line>>)
    ELSE IF Head(text) = "\n" THEN <<line>> \o SplitLines(Tail(text), <<>>)
    ELSE SplitLines(Tail(text), Append(line, Head(text)))

(* The path a C preprocessor string names: "\\\\" reads as one backslash; a *)
(* backslash before anything else is no path character ("?").              *)
RECURSIVE Unescape(_)
Unescape(chars) ==
    IF chars = <<>> THEN <<>>
    ELSE IF Head(chars) /= "\\" THEN <<Head(chars)>> \o Unescape(Tail(chars))
    ELSE IF Len(chars) >= 2 /\ chars[2] = "\\"
    THEN <<"\\">> \o Unescape(Tail(Tail(chars)))
    ELSE <<"?">> \o Unescape(Tail(chars))

IncludePrefix == <<"#", "i", "n", "c", "l", "u", "d", "e", " ", "\"">>

(* line is #include "<body>" and body names path. *)
IsIncludeOf(line, path) ==
    LET n == Len(line)
        m == Len(IncludePrefix)
    IN  /\ n >= m + 1
        /\ SubSeq(line, 1, m) = IncludePrefix
        /\ line[n] = "\""
        /\ Unescape(SubSeq(line, m + 1, n - 1)) = path
        /\ n - m - 1 = Len(path) + Cardinality({j \in 1..Len(path) : path[j] = "\\"})

(* C9: after _generate_unity_file ran, the destination holds one line       *)
(* #include "<path>" per source, in order, repeated paths included and      *)
(* nothing else, each backslash of a path doubled; whatever the file held   *)
(* before is gone, the other files are as they were, and every run for the  *)
(* same group left the same characters.                                     *)
C9_RenderedText ==
    rd.writes /= <<>> =>
        LET dest == rd.target[1].abspath
            text == rd.fs[dest].data
            lines == SplitLines(text, <<>>)
        IN  /\ rd.fs[dest].exists
            /\ text = rd.writes[Len(rd.writes)]
            /\ \A k \in 1..Len(rd.writes) : rd.writes[k] = rd.writes[1]
            /\ Len(lines) = Len(rd.source)
            /\ text /= <<>> => text[Len(text)] = "\n"
            /\ \A k \in 1..Len(lines) : IsIncludeOf(lines[k], rd.source[k].abspath)
            /\ \A other \in Dests \ {dest} : rd.fs[other] \in StaleFiles

(* The same path with a backslash rendered twice over an old file, twice. *)
C9_Witness ==
    /\ Len(rd.writes) = 2
    /\ Len(rd.source) = 2
    /\ rd.source[1] = rd.source[2]
    /\ \E j \in 1..Len(rd.source[1].abspath) : rd.source[1].abspath[j] = "\\"
    /\ rd.writes[1] /= <<"o", "l", "d", "\n">>

====
